---- MODULE Spec2Model ----
(***************************************************************************)
(* Scooter Wheels Scheduler: the command pipeline of src/app.py            *)
(* (extract_intent -> validate_intent -> apply_delay / apply_move /        *)
(* apply_swap -> _repack_touched_machines) and the session state it edits  *)
(* (schedule_df, cmd_log).                                                 *)
(*                                                                         *)
(* Instants are whole seconds on the wall clock of DEFAULT_TZ; a timedelta *)
(* is a whole number of seconds.  Python's None, a missing dict key and    *)
(* pandas' NaT / NaN are tagged values, so that a conversion or an         *)
(* arithmetic step on them is something the model computes.                *)
(***************************************************************************)
EXTENDS Integers, Sequences, FiniteSets, TLC

VARIABLES
    schedule_df,    \* st.session_state.schedule_df: row index -> row
    base_schedule,  \* the schedule as loaded (load_data), never written
    sched_tz,       \* TRUE iff the start/end columns are timezone-aware
    openai_key,     \* TRUE iff os.environ holds an OPENAI_API_KEY
    cmd_log,        \* st.session_state.cmd_log
    toast,          \* the message the last command surfaced (st.toast)
    ncmds,          \* number of commands processed since the initial state
    last,           \* history: what the last command did (observation only)
    submitted       \* history: every entry ever appended to cmd_log, in order

vars ==
    <<schedule_df, base_schedule, sched_tz, openai_key, cmd_log, toast, ncmds, last,
      submitted>>

(***************************************************************************)
(* Bounds and program constants                                            *)
(***************************************************************************)
MaxCmds == 2

SecPerHour == 3600
SecPerDay == 24 * SecPerHour
LogCap == 50
TzOffsetHours == 8

None == "None"

(***************************************************************************)
(* Python values that reach the arithmetic: a number, NaN, None/absent, a  *)
(* numeric string ("2") or any other string ("abc", "").                   *)
(***************************************************************************)
Num(n) == [k |-> "num", v |-> n]
NaN == [k |-> "nan", v |-> 0]
Absent == [k |-> "absent", v |-> 0]
NumStr(n) == [k |-> "numstr", v |-> n]
Text == [k |-> "text", v |-> 1]
EmptyText == [k |-> "text", v |-> 0]

\* Python truthiness of such a value (bool(x)): None, 0, 0.0 and "" are falsy;
\* NaN and every non-empty string (also "0") are truthy.
Truthy(x) ==
    CASE x.k = "absent" -> FALSE
      [] x.k = "num" -> x.v # 0
      [] x.k = "nan" -> TRUE
      [] x.k = "numstr" -> TRUE
      [] x.k = "text" -> x.v # 0

\* x or 0
OrZero(x) == IF Truthy(x) THEN x ELSE Num(0)

(***************************************************************************)
(* The tables: Orders (data/scooter_orders.csv) and the schedule rows      *)
(* (data/scooter_schedule.csv).  O004 is an order without any operation;    *)
(* M1 hosts three operations, of three orders.                             *)
(***************************************************************************)
orders == {"O001", "O002", "O003", "O004", "O005"}

Rows == 1 .. 6

RowOrder == <<"O001", "O001", "O002", "O002", "O003", "O005">>
RowMachine == <<"M1", "M2", "M1", "M2", "M3", "M1">>
RowOperation == <<"cut", "weld", "cut", "weld", "cut", "cut">>
RowSequence == <<1, 2, 1, 2, 1, 1>>
RowWheel == <<"Urban-200", "Urban-200", "Eco-160", "Eco-160", "Racing-180", "Eco-160">>

\* First start of the loaded schedule, operation lengths and idle gaps the
\* loaded schedule is drawn from.
DayStart == 8 * SecPerHour
Durs == {SecPerHour, SecPerHour + 1800}
Gaps == {0, 1800}

MkRow(i, st, d) ==
    [order_id |-> RowOrder[i], machine |-> RowMachine[i],
     operation |-> RowOperation[i], sequence |-> RowSequence[i],
     start |-> st, end |-> st + d,
     due_date |-> 3 * SecPerDay, wheel_type |-> RowWheel[i]]

\* A loaded schedule: O001, O002 and then O005 on M1, O001 then O002 on M2,
\* O003 alone on M3; every order's operations follow their sequence index.
load_data(d, g) ==
    [i \in Rows |->
        CASE i = 1 -> MkRow(1, DayStart, d)
          [] i = 2 -> MkRow(2, DayStart + d, SecPerHour)
          [] i = 3 -> MkRow(3, DayStart + d + g, SecPerHour)
          [] i = 4 -> MkRow(4, DayStart + d + g + SecPerHour, d)
          [] i = 5 -> MkRow(5, DayStart + g, d)
          [] i = 6 -> MkRow(6, DayStart + d + g + SecPerHour, SecPerHour)]

(***************************************************************************)
(* Schedule Mutator and Machine Repacker                                   *)
(***************************************************************************)
RowsOf(s, oid) == {i \in Rows : s[i].order_id = oid}

OnMachine(s, m) == {i \in Rows : s[i].machine = m}

\* sort_values(["start", "end"]): a stable lexicographic sort, so rows that
\* tie on both keys keep their index order.
SortsBefore(s, i, j) ==
    \/ s[i].start < s[j].start
    \/ s[i].start = s[j].start /\ s[i].end < s[j].end
    \/ s[i].start = s[j].start /\ s[i].end = s[j].end /\ i < j

\* Mutation: the block is swept in index order, without the sort.
RECURSIVE SortBlockByIndex(_, _)
SortBlockByIndex(s, rows) ==
    IF rows = {} THEN <<>>
    ELSE LET i == CHOOSE r \in rows : \A j \in rows : r <= j
         IN  <<i>> \o SortBlockByIndex(s, rows \ {i})

\* s.loc[block_idx].sort_values(["start", "end"]): the block's row indices in
\* sorted order.

RECURSIVE SortBlock(_, _)
SortBlock(s, rows) ==
    IF rows = {} THEN <<>>
    ELSE LET i == CHOOSE r \in rows : \A j \in rows \ {r} : SortsBefore(s, r, j)
         IN  <<i>> \o SortBlock(s, rows \ {i})

\* Mutations of the loop body: one that never pushes, one that pushes the
\* start but leaves the end where it was, one that also pulls a later row back
\* to last_end.
SweepStepNoPush(s, idx, has_last, last_end) == s

SweepStepKeepEnd(s, idx, has_last, last_end) ==
    IF has_last /\ s[idx].start < last_end
    THEN [s EXCEPT ![idx].start = last_end,
                   ![idx].end = IF @ < last_end THEN last_end ELSE @]
    ELSE s

SweepStepCompact(s, idx, has_last, last_end) ==
    IF has_last
    THEN LET dur == s[idx].end - s[idx].start
         IN  [s EXCEPT ![idx].start = last_end, ![idx].end = last_end + dur]
    ELSE s

\* One step of the sweep over a machine's sorted block (the loop body).

SweepStep(s, idx, has_last, last_end) ==
    IF has_last /\ s[idx].start < last_end
    THEN LET dur == s[idx].end - s[idx].start
         IN  [s EXCEPT ![idx].start = last_end, ![idx].end = last_end + dur]
    ELSE s

\* Mutation: last_end is read before the row is updated (row["end"], the
\* sorted copy's value).
RECURSIVE SweepStaleEnd(_, _, _, _, _)
SweepStaleEnd(s, block, k, has_last, last_end) ==
    IF k > Len(block) THEN s
    ELSE LET s2 == SweepStep(s, block[k], has_last, last_end)
         IN  SweepStaleEnd(s2, block, k + 1, TRUE, s[block[k]].end)

\* for idx, row in block.iterrows(): ...; last_end = s.at[idx, "end"]

RECURSIVE Sweep(_, _, _, _, _)
Sweep(s, block, k, has_last, last_end) ==
    IF k > Len(block) THEN s
    ELSE LET s2 == SweepStep(s, block[k], has_last, last_end)
         IN  Sweep(s2, block, k + 1, TRUE, s2[block[k]].end)

RepackMachine(s, m) == Sweep(s, SortBlock(s, OnMachine(s, m)), 1, FALSE, 0)

TouchedMachines(s, touched_orders) ==
    {s[i].machine : i \in {r \in Rows : s[r].order_id \in touched_orders}}

RECURSIVE RepackAll(_, _)
RepackAll(s, machines) ==
    IF machines = {} THEN s
    ELSE LET m == CHOOSE x \in machines : TRUE
         IN  RepackAll(RepackMachine(s, m), machines \ {m})

\* Mutation: the repack is left out.
RepackSkipped(s, touched_orders) == s

_repack_touched_machines(s, touched_orders) ==
    RepackAll(s, TouchedMachines(s, touched_orders))

\* Series.min() of the order's start column: NaT when the order has no row.
NaT == [k |-> "nat", v |-> 0]
Ts(n) == [k |-> "ts", v |-> n]

MinStart(s, oid) ==
    IF RowsOf(s, oid) = {} THEN NaT
    ELSE Ts(CHOOSE t \in {s[i].start : i \in RowsOf(s, oid)} :
                \A i \in RowsOf(s, oid) : t <= s[i].start)

\* x - y on instants: NaT on either side gives NaT.
TsSub(x, y) == IF x.k = "nat" \/ y.k = "nat" THEN NaT ELSE Ts(x.v - y.v)

\* Timedelta.days and Timedelta.seconds // 3600 (both NaN on NaT): days is
\* the floor of the delta in days, seconds the non-negative remainder.
TdDays(delta) == IF delta.k = "nat" THEN NaN ELSE Num(delta.v \div SecPerDay)

TdHours(delta) ==
    IF delta.k = "nat" THEN NaN ELSE Num((delta.v % SecPerDay) \div SecPerHour)

\* timedelta(days=float(days or 0), hours=float(hours or 0)): raises ValueError
\* on NaN; otherwise the signed number of seconds.
TimedeltaRaises(days, hours) == OrZero(days).k = "nan" \/ OrZero(hours).k = "nan"
Timedelta(days, hours) == OrZero(days).v * SecPerDay + OrZero(hours).v * SecPerHour

\* Mutation: the shift reaches the start column only.
ShiftOrderStartOnly(s, order_id, delta) ==
    [i \in Rows |-> IF s[i].order_id = order_id
                    THEN [s[i] EXCEPT !.start = @ + delta]
                    ELSE s[i]]

\* Mutation: the mask is lost and every row is shifted.
ShiftEveryOrder(s, order_id, delta) ==
    [i \in Rows |-> [s[i] EXCEPT !.start = @ + delta, !.end = @ + delta]]

\* Mutation: the shift reaches every datetime column of the order's rows.
ShiftOrderAllDates(s, order_id, delta) ==
    [i \in Rows |-> IF s[i].order_id = order_id
                    THEN [s[i] EXCEPT !.start = @ + delta, !.end = @ + delta,
                                      !.due_date = @ + delta]
                    ELSE s[i]]

\* s.loc[mask, "start"] += delta; s.loc[mask, "end"] += delta

ShiftOrder(s, order_id, delta) ==
    [i \in Rows |-> IF s[i].order_id = order_id
                    THEN [s[i] EXCEPT !.start = @ + delta, !.end = @ + delta]
                    ELSE s[i]]

\* The record of one apply_delay call: its arguments, the frame it was given,
\* the frame after the shift (before repacking) and the frame it returned.
DelayCall(s, order_id, days, hours, raised, shifted, out) ==
    [order_id |-> order_id, days |-> days, hours |-> hours, raised |-> raised,
     input |-> s, shifted |-> shifted, out |-> out]

\* A mutation's result: raised (an exception left the function), s (the frame
\* returned, or the function's local frame when it raised) and the apply_delay
\* calls made on the way.
apply_delay(schedule_df0, order_id, days, hours) ==
    IF TimedeltaRaises(days, hours)
    THEN [raised |-> TRUE, s |-> schedule_df0,
          calls |-> <<DelayCall(schedule_df0, order_id, days, hours, TRUE,
                                schedule_df0, schedule_df0)>>]
    ELSE LET shifted == ShiftOrder(schedule_df0, order_id, Timedelta(days, hours))
             out == _repack_touched_machines(shifted, {order_id})
         IN  [raised |-> FALSE, s |-> out,
              calls |-> <<DelayCall(schedule_df0, order_id, days, hours, FALSE,
                                    shifted, out)>>]

\* target_dt - t0 raises TypeError when target_dt is timezone-aware and t0 is a
\* timezone-naive Timestamp (or the reverse); NaT subtracts from anything.
SubRaises(target_dt, t0, tz_aware) == t0.k # "nat" /\ target_dt.aware # tz_aware

apply_move(schedule_df0, tz_aware, order_id, target_dt) ==
    LET t0 == MinStart(schedule_df0, order_id)
    IN  IF SubRaises(target_dt, t0, tz_aware)
        THEN [raised |-> TRUE, s |-> schedule_df0, calls |-> <<>>]
        ELSE LET delta == TsSub(Ts(target_dt.v), t0)
             IN  apply_delay(schedule_df0, order_id, TdDays(delta), TdHours(delta))

apply_swap(schedule_df0, a, b) ==
    LET a0 == MinStart(schedule_df0, a)
        b0 == MinStart(schedule_df0, b)
        da == TsSub(b0, a0)
        db == TsSub(a0, b0)
        r1 == apply_delay(schedule_df0, a, TdDays(da), TdHours(da))
    IN  IF r1.raised THEN r1
        ELSE LET r2 == apply_delay(r1.s, b, TdDays(db), TdHours(db))
             IN  [raised |-> r2.raised, s |-> r2.s, calls |-> r1.calls \o r2.calls]

(***************************************************************************)
(* Payloads: a dict with the keys of INTENT_SCHEMA; a missing key and a    *)
(* None value are both None / Absent (payload.get makes no difference).    *)
(***************************************************************************)
NoDate == [k |-> "absent", v |-> 0]
IsoDate(day) == [k |-> "iso", v |-> day]
BadDate == [k |-> "bad", v |-> 0]

NoTime == [k |-> "absent", v |-> 0, utc |-> FALSE]
HHMM(h, m) == [k |-> "hhmm", v |-> h * SecPerHour + m * 60, utc |-> FALSE]
HHMMZ(h, m) == [k |-> "hhmm", v |-> h * SecPerHour + m * 60, utc |-> TRUE]
BadTime == [k |-> "bad", v |-> 0, utc |-> FALSE]

NoDt == [k |-> "absent", v |-> 0, aware |-> FALSE]

Payload(intent, order_id, order_id_2, days, hours, date, time, source) ==
    [intent |-> intent, order_id |-> order_id, order_id_2 |-> order_id_2,
     days |-> days, hours |-> hours, date |-> date, time |-> time,
     raw |-> <<>>, _source |-> source, _target_dt |-> NoDt]

(***************************************************************************)
(* Intent Validator                                                        *)
(***************************************************************************)
\* oid and (orders_df["order_id"] == oid).any()
order_exists(oid) == oid # None /\ oid \in orders

\* float(x) on a present value: raises on a string that is no number.
FloatRaises(x) == x.k = "text"
Float(x) == IF x.k = "numstr" THEN Num(x.v) ELSE x

\* dtp.parse(f"{date_str} {hhmm}") and the localisation to TZ: a naive value
\* is localised (same wall clock), a value with its own zone (UTC here) is
\* converted to TZ's wall clock.  Either way the result is timezone-aware.
ParseRaises(date, hhmm) == date.k = "bad" \/ hhmm.k = "bad"
ResolveDt(date, hhmm) ==
    [k |-> "dt",
     v |-> date.v * SecPerDay + hhmm.v
           + (IF hhmm.utc THEN TzOffsetHours * SecPerHour ELSE 0),
     aware |-> TRUE]

DefaultTime == HHMM(8, 0)

Reject(payload, msg) == [ok |-> FALSE, msg |-> msg, payload |-> payload]
Accept(payload) == [ok |-> TRUE, msg |-> "ok", payload |-> payload]

ValidateDelay(payload) ==
    IF ~Truthy(payload.days) /\ ~Truthy(payload.hours)
    THEN Reject(payload, "Delay needs days or hours.")
    ELSE IF payload.days.k # "absent" /\ FloatRaises(payload.days)
    THEN Reject(payload, "Days/Hours must be numeric.")
    ELSE LET p1 == IF payload.days.k # "absent"
                   THEN [payload EXCEPT !.days = Float(@)] ELSE payload
         IN  IF p1.hours.k # "absent" /\ FloatRaises(p1.hours)
             THEN Reject(p1, "Days/Hours must be numeric.")
             ELSE Accept(IF p1.hours.k # "absent"
                         THEN [p1 EXCEPT !.hours = Float(@)] ELSE p1)

ValidateMove(payload) ==
    LET hhmm == IF payload.time.k = "absent" THEN DefaultTime ELSE payload.time
    IN  IF payload.date.k = "absent"
        THEN Reject(payload, "Move needs a date.")
        ELSE IF ParseRaises(payload.date, hhmm)
        THEN Reject(payload, "Unparseable datetime")
        ELSE Accept([payload EXCEPT !._target_dt = ResolveDt(payload.date, hhmm)])

\* Mutations: the order_id test is left out; the two order_id_2 tests are left
\* out.
validate_intent_any_order(payload) ==
    IF payload.intent \notin {"delay_order", "move_order", "swap_orders"}
    THEN Reject(payload, "Unsupported intent")
    ELSE IF payload.intent = "swap_orders" /\ ~order_exists(payload.order_id_2)
    THEN Reject(payload, "Unknown order_id_2")
    ELSE IF payload.intent = "swap_orders" /\ payload.order_id_2 = payload.order_id
    THEN Reject(payload, "Cannot swap the same order.")
    ELSE IF payload.intent = "delay_order" THEN ValidateDelay(payload)
    ELSE IF payload.intent = "move_order" THEN ValidateMove(payload)
    ELSE Reject(payload, "Invalid payload")

validate_intent_any_order_2(payload) ==
    IF payload.intent \notin {"delay_order", "move_order", "swap_orders"}
    THEN Reject(payload, "Unsupported intent")
    ELSE IF ~order_exists(payload.order_id)
    THEN Reject(payload, "Unknown order_id")
    ELSE IF payload.intent = "delay_order" THEN ValidateDelay(payload)
    ELSE IF payload.intent = "move_order" THEN ValidateMove(payload)
    ELSE Reject(payload, "Invalid payload")

\* validate_intent(payload, orders_df, sched_df): (ok, msg) and the payload as
\* the checks left it (days / hours coerced, _target_dt set).

validate_intent(payload) ==
    IF payload.intent \notin {"delay_order", "move_order", "swap_orders"}
    THEN Reject(payload, "Unsupported intent")
    ELSE IF ~order_exists(payload.order_id)
    THEN Reject(payload, "Unknown order_id")
    ELSE IF payload.intent = "swap_orders" /\ ~order_exists(payload.order_id_2)
    THEN Reject(payload, "Unknown order_id_2")
    ELSE IF payload.intent = "swap_orders" /\ payload.order_id_2 = payload.order_id
    THEN Reject(payload, "Cannot swap the same order.")
    ELSE IF payload.intent = "delay_order" THEN ValidateDelay(payload)
    ELSE IF payload.intent = "move_order" THEN ValidateMove(payload)
    ELSE Reject(payload, "Invalid payload")

(***************************************************************************)
(* Lexical Intent Extractor.  A command text is its sequence of words      *)
(* (split on white space); the patterns are matched word by word.          *)
(***************************************************************************)
OrderToks == {"o001", "o002", "o003", "o004", "o009"}
upper(tok) ==
    CASE tok = "o001" -> "O001" [] tok = "o002" -> "O002" [] tok = "o003" -> "O003"
      [] tok = "o004" -> "O004" [] tok = "o009" -> "O009" [] OTHER -> tok

lower(tok) ==
    CASE tok = "O001" -> "o001" [] tok = "O002" -> "o002" [] tok = "O003" -> "o003"
      [] tok = "O004" -> "o004" [] tok = "O009" -> "o009" [] tok = "Swap" -> "swap"
      [] OTHER -> tok

Lowered(text) == [i \in 1 .. Len(text) |-> lower(text[i])]

NUM_WORDS ==
    [w \in {"zero", "one", "two", "three", "four", "five", "six", "seven",
            "eight", "nine", "ten", "eleven", "twelve", "thirteen", "fourteen",
            "fifteen", "sixteen", "seventeen", "eighteen", "nineteen", "twenty"} |->
        CASE w = "zero" -> 0 [] w = "one" -> 1 [] w = "two" -> 2 [] w = "three" -> 3
          [] w = "four" -> 4 [] w = "five" -> 5 [] w = "six" -> 6 [] w = "seven" -> 7
          [] w = "eight" -> 8 [] w = "nine" -> 9 [] w = "ten" -> 10
          [] w = "eleven" -> 11 [] w = "twelve" -> 12 [] w = "thirteen" -> 13
          [] w = "fourteen" -> 14 [] w = "fifteen" -> 15 [] w = "sixteen" -> 16
          [] w = "seventeen" -> 17 [] w = "eighteen" -> 18 [] w = "nineteen" -> 19
          [] w = "twenty" -> 20]

\* The digit strings and the hyphenated words of the vocabulary:
\* t.isdigit() / int(t), and t.replace("-", " ").split().
DigitToks == {"0", "2", "3", "24"}
int(tok) == CASE tok = "0" -> 0 [] tok = "2" -> 2 [] tok = "3" -> 3 [] tok = "24" -> 24
Parts(tok) == IF tok = "twenty-two" THEN <<"twenty", "two">> ELSE <<tok>>

_num_token_to_int(tok) ==
    IF tok \in DigitToks THEN Num(int(tok))
    ELSE LET parts == Parts(tok)
         IN  IF Len(parts) = 1 /\ parts[1] \in DOMAIN NUM_WORDS
             THEN Num(NUM_WORDS[parts[1]])
             ELSE IF Len(parts) = 2 /\ parts[1] \in DOMAIN NUM_WORDS
                                    /\ parts[2] \in DOMAIN NUM_WORDS
             THEN Num(NUM_WORDS[parts[1]] + NUM_WORDS[parts[2]])
             ELSE Absent

Units == {"day", "days", "d", "hour", "hours", "h"}
DayUnits == {"day", "days", "d"}
DelayVerbs == {"delay", "push", "postpone"}
MoveVerbs == {"move", "set", "schedule"}

Min(S) == CHOOSE x \in S : \A y \in S : x <= y

\* dtp.parse(when, fuzzy=True): the words that name a date or a time of day
\* are read, every other word is skipped; a phrase with neither raises.  A
\* phrase without a time reads as 00:00, one without a date as the current
\* day (day 0 here).
DateToks == {"aug-20", "aug-21"}
TimeToks == {"9am", "9:30am"}
DayOf(tok) == IF tok = "aug-21" THEN 1 ELSE 0
TimeOf(tok) == IF tok = "9am" THEN HHMM(9, 0) ELSE HHMM(9, 30)

FuzzyRaises(when) == \A i \in 1 .. Len(when) : when[i] \notin DateToks \cup TimeToks
FuzzyDate(when) ==
    LET ds == {i \in 1 .. Len(when) : when[i] \in DateToks}
    IN  IsoDate(IF ds = {} THEN 0 ELSE DayOf(when[Min(ds)]))
FuzzyTime(when) ==
    LET ts == {i \in 1 .. Len(when) : when[i] \in TimeToks}
    IN  IF ts = {} THEN HHMM(0, 0) ELSE TimeOf(when[Min(ts)])

\* Positions where "(delay|push|postpone)\s+(o\d{3})" matches.
DelayHeads(low) ==
    {i \in 1 .. Len(low) - 1 : low[i] \in DelayVerbs /\ low[i + 1] \in OrderToks}

DelayPayload(oid, n, unit) ==
    IF unit \in DayUnits
    THEN Payload("delay_order", upper(oid), None, n, Absent, NoDate, NoTime, "regex")
    ELSE Payload("delay_order", upper(oid), None, Absent, n, NoDate, NoTime, "regex")

Unknown(user_text) ==
    [Payload("unknown", None, None, Absent, Absent, NoDate, NoTime, "regex")
        EXCEPT !.raw = user_text]

_regex_fallback(user_text) ==
    LET low == Lowered(user_text)
        n == Len(low)
        swaps == {i \in 1 .. n - 2 :
                    /\ low[i] \in {"swap", "switch"} /\ low[i + 1] \in OrderToks
                    /\ \/ low[i + 2] \in OrderToks
                       \/ /\ i + 3 <= n /\ low[i + 2] \in {"with", "and", "&"}
                          /\ low[i + 3] \in OrderToks}
        \* ".*?\bby\b\s+([\w\-]+)\s*(unit)\b" after the head at i
        bys(i) == {j \in i + 2 .. n - 2 : low[j] = "by" /\ low[j + 2] \in Units}
        byHeads == {i \in DelayHeads(low) : bys(i) # {}}
        \* ".*?\b([\w\-]+)\s*(unit)\b" after the head at i
        qtys(i) == {j \in i + 2 .. n - 1 : low[j + 1] \in Units}
        qtyHeads == {i \in DelayHeads(low) : qtys(i) # {}}
        moves == {i \in 1 .. n - 3 :
                    /\ low[i] \in MoveVerbs /\ low[i + 1] \in OrderToks
                    /\ low[i + 2] \in {"to", "on"}}
        ones == {i \in DelayHeads(low) :
                    \E j \in i + 2 .. n - 1 : low[j] = "one" /\ low[j + 1] = "day"}
        byHit == byHeads # {}
                 /\ _num_token_to_int(low[Min(bys(Min(byHeads))) + 1]).k = "num"
        qtyHit == qtyHeads # {}
                  /\ _num_token_to_int(low[Min(qtys(Min(qtyHeads)))]).k = "num"
        moveHit == moves # {} /\ ~FuzzyRaises(SubSeq(low, Min(moves) + 3, n))
    IN  IF swaps # {}
        THEN LET i == Min(swaps)
             IN  Payload("swap_orders", upper(low[i + 1]),
                         upper(IF low[i + 2] \in OrderToks THEN low[i + 2]
                               ELSE low[i + 3]),
                         Absent, Absent, NoDate, NoTime, "regex")
        ELSE IF byHit
        THEN LET i == Min(byHeads)
                 j == Min(bys(i))
             IN  DelayPayload(low[i + 1], _num_token_to_int(low[j + 1]), low[j + 2])
        ELSE IF qtyHit
        THEN LET i == Min(qtyHeads)
                 j == Min(qtys(i))
             IN  DelayPayload(low[i + 1], _num_token_to_int(low[j]), low[j + 1])
        ELSE IF moveHit
        THEN LET i == Min(moves)
                 when == SubSeq(low, i + 3, n)
             IN  Payload("move_order", upper(low[i + 1]), None, Absent, Absent,
                         FuzzyDate(when), FuzzyTime(when), "regex")
        ELSE IF ones # {}
        THEN Payload("delay_order", upper(low[Min(ones) + 1]), None, Num(1), Absent,
                     NoDate, NoTime, "regex")
        ELSE Unknown(user_text)

\* What the external service does with one request: the call or the decoding
\* of its answer raises ("error"), the answer decodes to something that is no
\* JSON object ("nondict", on which data["_source"] = ... raises), or it
\* decodes to an object ("dict").
OpenAIError == [k |-> "error", data |-> Unknown(<<>>)]
OpenAINonDict == [k |-> "nondict", data |-> Unknown(<<>>)]
OpenAIDict(data) == [k |-> "dict", data |-> data]

OpenAIRaises(reply) == reply.k # "dict"
_extract_with_openai(user_text, reply) == [reply.data EXCEPT !._source = "openai"]

\* Mutation: no try / except around the call of the service.
extract_intent_unguarded(user_text, has_key, reply) ==
    IF has_key
    THEN [payload |-> _extract_with_openai(user_text, reply),
          raised |-> OpenAIRaises(reply),
          openai_called |-> TRUE, regex_called |-> FALSE]
    ELSE [payload |-> _regex_fallback(user_text), raised |-> FALSE,
          openai_called |-> FALSE, regex_called |-> TRUE]

\* The result names, next to the payload, which strategies ran and whether an
\* exception left extract_intent.
extract_intent(user_text, has_key, reply) ==
    IF has_key /\ ~OpenAIRaises(reply)
    THEN [payload |-> _extract_with_openai(user_text, reply), raised |-> FALSE,
          openai_called |-> TRUE, regex_called |-> FALSE]
    ELSE [payload |-> _regex_fallback(user_text), raised |-> FALSE,
          openai_called |-> has_key, regex_called |-> TRUE]

(***************************************************************************)
(* The command handler (the `if user_cmd:` block)                          *)
(***************************************************************************)
\* The mutation an accepted payload selects (the if / elif chain).
Dispatch(s, tz_aware, payload) ==
    CASE payload.intent = "delay_order" ->
            apply_delay(s, payload.order_id, OrZero(payload.days), OrZero(payload.hours))
      [] payload.intent = "move_order" ->
            apply_move(s, tz_aware, payload.order_id, payload._target_dt)
      [] payload.intent = "swap_orders" ->
            apply_swap(s, payload.order_id, payload.order_id_2)

NoCall(s) == [raised |-> FALSE, s |-> s, calls |-> <<>>]

\* Mutation: the `if not ok` test is lost, so a payload of a known intent is
\* dispatched whatever the validator said.
RunCommandUnchecked(s, tz_aware, ok, payload) ==
    IF payload.intent \in {"delay_order", "move_order", "swap_orders"}
    THEN Dispatch(s, tz_aware, payload) ELSE NoCall(s)

\* `if not ok: toast ... else: <mutation>`: nothing is called on a rejection.
RunCommand(s, tz_aware, ok, payload) ==
    IF ok THEN Dispatch(s, tz_aware, payload) ELSE NoCall(s)

\* st.session_state.schedule_df after the command: assigned only when the
\* mutation returned; an exception leaves the assignment undone.
NextSchedule(s, r) == IF r.raised THEN s ELSE r.s

SuccessMsg(intent) ==
    CASE intent = "delay_order" -> "Delayed"
      [] intent = "move_order" -> "Moved"
      [] intent = "swap_orders" -> "Swapped"

NoToast == [icon |-> "none", msg |-> ""]
ToastOf(ok, msg, payload, r) ==
    IF ~ok THEN [icon |-> "warning", msg |-> msg]
    ELSE IF r.raised THEN [icon |-> "error", msg |-> "Parser error"]
    ELSE [icon |-> "ok", msg |-> SuccessMsg(payload.intent)]

\* log_payload: a copy of the payload with _target_dt rendered by str().
LogPayload(payload) ==
    IF payload._target_dt.k = "dt"
    THEN [payload EXCEPT !._target_dt.k = "str"] ELSE payload

LogEntry(user_cmd, payload, ok, msg) ==
    [raw |-> user_cmd, payload |-> LogPayload(payload), ok |-> ok, msg |-> msg,
     source |-> payload._source]

\* lst[-n:]
LastN(lst, n) == IF Len(lst) <= n THEN lst ELSE SubSeq(lst, Len(lst) - n + 1, Len(lst))

\* Mutation: the slice keeps the head of the list (lst[:50]).
AppendLogKeepOldest(log, entry) ==
    IF Len(log) < LogCap THEN Append(log, entry) ELSE log

\* cmd_log.append(entry); cmd_log = cmd_log[-50:]

AppendLog(log, entry) == LastN(Append(log, entry), LogCap)

FnOf(ok, payload) ==
    IF ~ok THEN "none"
    ELSE CASE payload.intent = "delay_order" -> "apply_delay"
           [] payload.intent = "move_order" -> "apply_move"
           [] payload.intent = "swap_orders" -> "apply_swap"

NoArgs == [order_id |-> None, order_id_2 |-> None, days |-> Absent,
           hours |-> Absent, target_dt |-> NoDt]

NoExtract == [payload |-> Unknown(<<>>), raised |-> FALSE,
              openai_called |-> FALSE, regex_called |-> FALSE]

\* The observation of one command (or of one direct call of a mutation):
\* extract is extract_intent's result, payload the payload after validation,
\* before the frame the command started from, result the frame the mutation
\* returned.
Observed(text, key, reply, ex, payload, ok, msg, fn, args, before, r) ==
    [text |-> text, has_key |-> key, reply |-> reply, extract |-> ex,
     payload |-> payload, ok |-> ok, msg |-> msg, fn |-> fn, args |-> args,
     before |-> before, raised |-> r.raised, calls |-> r.calls,
     result |-> r.s]

(***************************************************************************)
(* Inputs: the command texts typed, and the answers of the external        *)
(* service when a key is configured.                                       *)
(***************************************************************************)
Texts ==
    { <<"Swap", "O001", "with", "o002">>,
      <<"delay", "o001", "by", "one", "day">>,
      <<"push", "o002", "2", "hours">>,
      <<"delay", "o003", "by", "twenty-two", "hours">>,
      <<"delay", "o004", "by", "zero", "days">>,
      <<"delay", "o002", "some", "days", "maybe", "one", "day">>,
      <<"move", "o001", "to", "aug-20", "9:30am">>,
      <<"schedule", "o004", "on", "aug-21", "9am">>,
      <<"move", "o002", "to", "soon">>,
      <<"please", "reorganize", "everything">> }

Delay(oid, days, hours) ==
    Payload("delay_order", oid, None, days, hours, NoDate, NoTime, None)
Move(oid, date, time) ==
    Payload("move_order", oid, None, Absent, Absent, date, time, None)
Swap(a, b) ==
    Payload("swap_orders", a, b, Absent, Absent, NoDate, NoTime, None)

Replies ==
    { OpenAIError, OpenAINonDict,
      OpenAIDict(Delay("O001", Absent, Num(-1))),
      OpenAIDict(Delay("O002", NumStr(1), Absent)),
      OpenAIDict(Delay("O001", Text, Absent)),
      OpenAIDict(Delay("O001", Num(1), Text)),
      OpenAIDict(Delay("O002", Absent, Absent)),
      OpenAIDict(Delay(None, Num(1), Absent)),
      OpenAIDict(Move("O001", IsoDate(0), NoTime)),
      OpenAIDict(Move("O002", IsoDate(0), HHMMZ(1, 30))),
      OpenAIDict(Move("O001", IsoDate(0), HHMM(6, 15))),
      OpenAIDict(Move("O001", BadDate, HHMM(9, 0))),
      OpenAIDict(Move("O002", NoDate, HHMM(9, 0))),
      OpenAIDict(Swap("O002", "O001")),
      OpenAIDict(Swap("O001", "O001")),
      OpenAIDict(Swap("O001", "O009")) }

\* The text typed when the service answers with an object (its answer does
\* not depend on the text in this model).
ReplyTexts == { <<"please", "reorganize", "everything">> }

(***************************************************************************)
(* The state machine                                                       *)
(***************************************************************************)
NoLast ==
    Observed(<<>>, FALSE, OpenAIError, NoExtract, Unknown(<<>>), FALSE, "", "none",
             NoArgs, load_data(SecPerHour, 0), NoCall(load_data(SecPerHour, 0)))

Init ==
    /\ \E d \in Durs, g \in Gaps :
          /\ base_schedule = load_data(d, g)
          /\ schedule_df = load_data(d, g)
    /\ sched_tz \in BOOLEAN
    /\ openai_key \in BOOLEAN
    /\ cmd_log = <<>>
    /\ toast = NoToast
    /\ ncmds = 0
    /\ last = NoLast
    /\ submitted = <<>>

\* One command typed into the chat input and processed to completion.  An
\* exception that leaves extract_intent skips the log and ends in the handler's
\* except branch, like one that leaves a mutation.
user_cmd(text, reply) ==
    /\ ncmds < MaxCmds
    /\ LET ex == extract_intent(text, openai_key, reply)
           v == IF ex.raised THEN Reject(ex.payload, "") ELSE validate_intent(ex.payload)
           r == IF ex.raised THEN [NoCall(schedule_df) EXCEPT !.raised = TRUE]
                ELSE RunCommand(schedule_df, sched_tz, v.ok, v.payload)
       IN  /\ cmd_log' = IF ex.raised THEN cmd_log
                         ELSE AppendLog(cmd_log, LogEntry(text, v.payload, v.ok, v.msg))
           /\ submitted' = IF ex.raised THEN submitted
                           ELSE Append(submitted, LogEntry(text, v.payload, v.ok, v.msg))
           /\ schedule_df' = NextSchedule(schedule_df, r)
           /\ toast' = ToastOf(v.ok \/ ex.raised, v.msg, v.payload, r)
           /\ last' = Observed(text, openai_key, reply, ex,
                               v.payload, v.ok, v.msg, FnOf(v.ok, v.payload),
                               [order_id |-> v.payload.order_id,
                                order_id_2 |-> v.payload.order_id_2,
                                days |-> v.payload.days, hours |-> v.payload.hours,
                                target_dt |-> v.payload._target_dt],
                               schedule_df, r)
    /\ ncmds' = ncmds + 1
    /\ UNCHANGED <<base_schedule, sched_tz, openai_key>>

\* The (text, answer) pairs of one command: without a key the service is not
\* asked (its answer is immaterial); with one, it fails on any text, and on
\* ReplyTexts it gives any of Replies.
Commands ==
    {<<text, OpenAIError>> : text \in Texts}
    \cup (IF openai_key
          THEN {<<text, reply>> : text \in ReplyTexts, reply \in Replies}
          ELSE {})

Next == \E c \in Commands : user_cmd(c[1], c[2])

Spec == Init /\ [][Next]_vars

(***************************************************************************)
(* The mutation functions called directly, on arguments of the shape the   *)
(* validator lets through: an order of Orders, numeric days and hours, a   *)
(* timezone-aware target instant, two different orders.  The caller keeps  *)
(* its frame when the call raises.                                         *)
(***************************************************************************)
DelayDeltas == {<<0, 1>>, <<0, -1>>, <<1, 0>>, <<-1, 22>>}
MoveTargets == {6 * SecPerHour + 900, 9 * SecPerHour + 1800, SecPerDay + DayStart}
Aware(t) == [k |-> "dt", v |-> t, aware |-> TRUE]

Called(fn, args, r) ==
    /\ ncmds < MaxCmds
    /\ schedule_df' = NextSchedule(schedule_df, r)
    /\ last' = Observed(<<>>, FALSE, OpenAIError, NoExtract, Unknown(<<>>), TRUE, "ok",
                        fn, args, schedule_df, r)
    /\ ncmds' = ncmds + 1
    /\ UNCHANGED <<base_schedule, sched_tz, openai_key, cmd_log, toast, submitted>>

call_delay(oid, days, hours) ==
    Called("apply_delay",
           [NoArgs EXCEPT !.order_id = oid, !.days = Num(days), !.hours = Num(hours)],
           apply_delay(schedule_df, oid, Num(days), Num(hours)))

call_move(oid, t) ==
    Called("apply_move",
           [NoArgs EXCEPT !.order_id = oid, !.target_dt = Aware(t)],
           apply_move(schedule_df, sched_tz, oid, Aware(t)))

call_swap(a, b) ==
    Called("apply_swap",
           [NoArgs EXCEPT !.order_id = a, !.order_id_2 = b],
           apply_swap(schedule_df, a, b))

\* The schedule's columns are timezone-aware here, as the target instants are:
\* on a naive schedule apply_move raises before it changes anything, and
\* apply_delay and apply_swap do not look at the zone.
MutInit == Init /\ openai_key = FALSE /\ sched_tz = TRUE

MutNext ==
    \/ \E oid \in orders, dh \in DelayDeltas : call_delay(oid, dh[1], dh[2])
    \/ \E oid \in orders, t \in MoveTargets : call_move(oid, t)
    \/ \E a \in orders : \E b \in orders \ {a} : call_swap(a, b)

MutSpec == MutInit /\ [][MutNext]_vars

(***************************************************************************)
(* A session that has already processed commands: PastTexts typed in turn, *)
(* none of which the validator accepted, so the schedule is still the      *)
(* loaded one and the log holds one entry for each.                        *)
(***************************************************************************)
PastTexts ==
    << <<"please", "reorganize", "everything">>,
       <<"delay", "o004", "by", "zero", "days">>,
       <<"move", "o002", "to", "soon">> >>

PastText(i) == PastTexts[(i % Len(PastTexts)) + 1]

PastEntry(i) ==
    LET v == validate_intent(extract_intent(PastText(i), FALSE, OpenAIError).payload)
    IN  LogEntry(PastText(i), v.payload, v.ok, v.msg)

PastLog(n) == [i \in 1 .. n |-> PastEntry(i)]

LogLens == {0, LogCap - 1, LogCap}

LogInit ==
    /\ \E d \in Durs, g \in Gaps :
          /\ base_schedule = load_data(d, g)
          /\ schedule_df = load_data(d, g)
    /\ sched_tz = TRUE
    /\ openai_key = FALSE
    /\ \E n \in LogLens :
          /\ cmd_log = PastLog(n)
          /\ submitted = PastLog(n)
          /\ toast = IF n = 0 THEN NoToast
                     ELSE [icon |-> "warning", msg |-> PastEntry(n).msg]
    /\ ncmds = 0
    /\ last = NoLast

LogSpec == LogInit /\ [][Next]_vars

(***************************************************************************)
(* The validator behind the handler, on every payload the service can      *)
(* answer with: the fields of each intent range over present / absent,     *)
(* well-formed / malformed values, with a known or an unknown order.       *)
(***************************************************************************)
MaxReplies == 1

ReplyOrders == {None, "o001", "O009", "O001"}
ReplyOrders2 == {None, "O009", "O001", "O002"}
ReplyDays == {Absent, Num(0), Num(2), NumStr(0), Text, EmptyText}
ReplyHours == {Absent, Num(-1), Text}
ReplyDates == {NoDate, IsoDate(0), BadDate}
ReplyTimes == {NoTime, HHMM(6, 15), BadTime}

ReplyPayloads ==
    {Delay(o, d, h) : o \in ReplyOrders, d \in ReplyDays, h \in ReplyHours}
    \cup {Move(o, d, t) : o \in ReplyOrders, d \in ReplyDates, t \in ReplyTimes}
    \cup {Swap(a, b) : a \in ReplyOrders, b \in ReplyOrders2}
    \cup {Unknown(<<>>)}

service_cmd(data) ==
    /\ ncmds < MaxReplies
    /\ \E text \in ReplyTexts : user_cmd(text, OpenAIDict(data))

ValInit == Init /\ openai_key = TRUE /\ sched_tz = TRUE

ValNext == \E data \in ReplyPayloads : service_cmd(data)

ValSpec == ValInit /\ [][ValNext]_vars

(***************************************************************************)
(* Properties                                                              *)
(***************************************************************************)
\* [start, end) of rows i and j intersect.
Overlap(s, i, j) == s[i].start < s[j].end /\ s[j].start < s[i].end

NonOverlap(s) ==
    \A i, j \in Rows : (i # j /\ s[i].machine = s[j].machine) => ~Overlap(s, i, j)

Dur(s, i) == s[i].end - s[i].start

\* The apply_delay calls of the last mutation that returned.
Returned == {k \in 1 .. Len(last.calls) : ~last.calls[k].raised}

\* Seconds in the (days, hours) a call was given.
SecondsOf(c) == c.days.v * SecPerDay + c.hours.v * SecPerHour

\* The repack of call c moved row i.
Pushed(c, i) == c.out[i] # c.shifted[i]

\* C1: starting from a schedule without overlap on any machine, after any
\* sequence of delay, move and swap mutations no two operations of one machine
\* overlap, in the frame every apply_delay call returned and in the schedule.
C1_NoMachineOverlap ==
    /\ NonOverlap(schedule_df)
    /\ \A k \in Returned : NonOverlap(last.calls[k].out)

\* A swap went through whose first shift made two operations collide.
C1_Witness ==
    /\ ncmds = MaxCmds
    /\ last.fn = "apply_swap" /\ ~last.raised
    /\ ~NonOverlap(last.calls[1].shifted)
    /\ schedule_df = last.result

\* C3: apply_delay adds D = days * 24h + hours * 1h to the start and the end
\* of every operation of its order and leaves every other row as it was, before
\* the repack; a row of the order that the repack did not move has start + D
\* and end + D in the returned frame.
C3_DelayShiftsOrderByDelta ==
    \A k \in Returned :
        LET c == last.calls[k]
            D == SecondsOf(c)
        IN  \A i \in Rows :
                IF c.input[i].order_id = c.order_id
                THEN /\ c.shifted[i].start = c.input[i].start + D
                     /\ c.shifted[i].end = c.input[i].end + D
                     /\ [c.shifted[i] EXCEPT !.start = 0, !.end = 0]
                            = [c.input[i] EXCEPT !.start = 0, !.end = 0]
                     /\ ~Pushed(c, i) =>
                            /\ c.out[i].start = c.input[i].start + D
                            /\ c.out[i].end = c.input[i].end + D
                ELSE c.shifted[i] = c.input[i]

\* A delay to an earlier time after which the repack moved some operation and
\* left an operation of the delayed order where the shift put it.
C3_Witness ==
    /\ last.fn = "apply_delay" /\ ~last.raised
    /\ SecondsOf(last.calls[1]) < 0
    /\ \E i \in Rows : Pushed(last.calls[1], i)
    /\ \E j \in RowsOf(schedule_df, last.args.order_id) : ~Pushed(last.calls[1], j)

\* C4: the repack changes no operation's duration, and so every operation of
\* the schedule has the duration it was loaded with.
C4_RepackKeepsDurations ==
    /\ \A k \in Returned : \A i \in Rows :
            Dur(last.calls[k].out, i) = Dur(last.calls[k].shifted, i)
    /\ \A i \in Rows : Dur(schedule_df, i) = Dur(base_schedule, i)

\* The repack pushed an operation behind one of a different length.
C4_Witness ==
    /\ ~last.raised /\ Len(last.calls) > 0
    /\ \E i, j \in Rows :
            /\ Pushed(last.calls[1], i)
            /\ last.calls[1].out[i].start = last.calls[1].out[j].end
            /\ Dur(schedule_df, i) # Dur(schedule_df, j)

\* C5: the repack moves no operation to a start earlier than the one it had
\* when the repack began.
C5_RepackNeverMovesEarlier ==
    \A k \in Returned : \A i \in Rows :
        last.calls[k].out[i].start >= last.calls[k].shifted[i].start

\* A repack that pushed one operation and left, on the same machine, an idle
\* gap in front of another.
C5_Witness ==
    /\ ~last.raised /\ Len(last.calls) > 0
    /\ LET c == last.calls[1]
       IN  \E i, j \in Rows :
            /\ i # j /\ c.out[i].machine = c.out[j].machine
            /\ Pushed(c, i) /\ ~Pushed(c, j)
            /\ \A h \in Rows : (h # j /\ c.out[h].machine = c.out[j].machine
                                 /\ c.out[h].start <= c.out[j].start)
                                => c.out[h].end < c.out[j].start

\* At least one command has been processed by the handler.
Processed == ncmds > 0 /\ last.text # <<>>

\* C2: when validate_intent rejects the payload, the handler surfaces the
\* reason, calls no mutation function and leaves the schedule as it was before
\* the command.
C2_RejectionLeavesTimeline ==
    (Processed /\ ~last.ok) =>
        /\ toast.icon = "warning" /\ toast.msg = last.msg /\ last.msg # ""
        /\ last.fn = "none" /\ last.calls = <<>>
        /\ schedule_df = last.before

\* A payload of a known intent and order, rejected for its date, after an
\* earlier command had already changed the schedule.
C2_Witness ==
    /\ Processed /\ ~last.ok /\ ncmds = MaxCmds
    /\ last.msg = "Unparseable datetime"
    /\ schedule_df # base_schedule

\* C6 (as claimed): apply_move passes to apply_delay days and hours that sum
\* to target_dt - earliest start, so that before the repack the order's earliest
\* start is the target instant.
C6_MoveShiftsByExactDelta ==
    (last.fn = "apply_move" /\ ~last.raised) =>
        LET c == last.calls[1]
            t0 == MinStart(last.before, last.args.order_id)
        IN  /\ SecondsOf(c) = last.args.target_dt.v - t0.v
            /\ MinStart(c.shifted, last.args.order_id).v = last.args.target_dt.v

\* C7 (as claimed): apply_swap(T, a, b) returns delay(delay(T, a, da), b, -da)
\* for da = earliest_start_T(b) - earliest_start_T(a), both read from T.
ExactDelay(s, oid, seconds) == _repack_touched_machines(ShiftOrder(s, oid, seconds), {oid})

C7_SwapIsTwoExactDelays ==
    (last.fn = "apply_swap" /\ ~last.raised) =>
        LET a == last.args.order_id
            b == last.args.order_id_2
            da == MinStart(last.before, b).v - MinStart(last.before, a).v
        IN  /\ last.result = ExactDelay(ExactDelay(last.before, a, da), b, 0 - da)
            /\ schedule_df = last.result

\* C8 (as claimed): the mutation called for a payload that validate_intent
\* accepted returns a schedule; no exception leaves it.
C8_MutationsTotalOnAccepted ==
    (Processed /\ last.ok) => ~last.raised

\* C9: a command ends in one of two ways: the schedule is the frame the
\* mutation returned, without overlap on any machine, and success is reported;
\* or the schedule is the one before the command and a warning or an error
\* message is surfaced.  Nothing in between is ever stored.
C9_NewValidTimelineOrUntouched ==
    Processed =>
        \/ /\ toast.icon = "ok" /\ last.ok /\ ~last.raised
           /\ schedule_df = last.result /\ NonOverlap(schedule_df)
        \/ /\ toast.icon \in {"warning", "error"} /\ toast.msg # ""
           /\ schedule_df = last.before

\* An accepted command whose mutation raised, after an earlier command had
\* changed the schedule.
C9_Witness ==
    /\ Processed /\ ncmds = MaxCmds
    /\ last.ok /\ last.raised /\ toast.icon = "error"
    /\ schedule_df # base_schedule

Extracted == last.extract.payload

KnownIntents == {"delay_order", "move_order", "swap_orders"}

\* C11: a payload of a known intent whose order_id is not an order of Orders
\* (absent, not of the form O + three digits, or of no order) is rejected with
\* the unknown-order message whatever its other fields hold: no other field
\* was coerced or resolved, no mutation is called and the schedule is the one
\* before the command.
C11_UnknownOrderRejectedFirst ==
    (Processed /\ Extracted.intent \in KnownIntents /\ Extracted.order_id \notin orders) =>
        /\ ~last.ok /\ last.msg = "Unknown order_id"
        /\ last.payload = Extracted
        /\ toast = [icon |-> "warning", msg |-> "Unknown order_id"]
        /\ last.fn = "none" /\ last.calls = <<>>
        /\ schedule_df = last.before

\* A delay of an order id in lower case whose days are no number: rejected for
\* the order, not for the days.
C11_Witness ==
    /\ Processed
    /\ Extracted.intent = "delay_order" /\ Extracted.order_id = "o001"
    /\ Extracted.days = Text
    /\ last.msg = "Unknown order_id"

\* C12: a swap_orders payload of an existing order_id is rejected when its
\* order_id_2 is no order of Orders (with the order_id_2 message) and when it
\* is order_id itself (with the same-order message); and apply_swap is never
\* called with a = b or with an id outside Orders.
C12_SwapNeedsTwoDistinctOrders ==
    /\ (Processed /\ Extracted.intent = "swap_orders" /\ Extracted.order_id \in orders) =>
            /\ Extracted.order_id_2 \notin orders =>
                    ~last.ok /\ last.msg = "Unknown order_id_2" /\ last.fn = "none"
            /\ Extracted.order_id_2 = Extracted.order_id =>
                    ~last.ok /\ last.msg = "Cannot swap the same order."
                    /\ last.fn = "none"
    /\ (Processed /\ last.fn = "apply_swap") =>
            /\ last.args.order_id \in orders /\ last.args.order_id_2 \in orders
            /\ last.args.order_id # last.args.order_id_2

\* A swap of an existing order with itself was rejected as such.
C12_Witness ==
    /\ Processed /\ Extracted.intent = "swap_orders"
    /\ Extracted.order_id = "O001" /\ Extracted.order_id_2 = "O001"
    /\ ~last.ok /\ last.msg = "Cannot swap the same order."
    /\ schedule_df = last.before

\* A days / hours value that is absent, zero or empty, and one that is a
\* number other than zero.
Falsy(x) == x \in {Absent, Num(0), EmptyText}
NonZeroNumber(x) == x.k = "num" /\ x.v # 0

\* C13 (as claimed): an accepted delay_order payload has, after coercion, a
\* days or hours that is a number other than zero, and every days / hours it
\* holds is a number; a delay of an existing order is rejected when both are
\* absent, zero or empty, and rejected with the numeric message when one of
\* them is present and no number.
C13_AcceptedDelayIsNonZeroNumeric ==
    (Processed /\ Extracted.intent = "delay_order") =>
        /\ last.ok =>
                /\ NonZeroNumber(last.payload.days) \/ NonZeroNumber(last.payload.hours)
                /\ last.payload.days.k \in {"num", "absent"}
                /\ last.payload.hours.k \in {"num", "absent"}
        /\ (Falsy(Extracted.days) /\ Falsy(Extracted.hours)) => ~last.ok
        /\ (/\ Extracted.order_id \in orders
            /\ ~(Falsy(Extracted.days) /\ Falsy(Extracted.hours))
            /\ Text \in {Extracted.days, Extracted.hours}) =>
                ~last.ok /\ last.msg = "Days/Hours must be numeric."

\* A row without its times: what identifies an operation.
Identity(row) == [row EXCEPT !.start = 0, !.end = 0]

SameOperations(s, t) ==
    /\ DOMAIN s = DOMAIN t
    /\ \A i \in DOMAIN s : Identity(s[i]) = Identity(t[i])

\* C14: after any sequence of delay, move and swap mutations the schedule
\* holds the operations of the loaded schedule, each with its order_id,
\* machine, operation, sequence, due_date and wheel_type; so does every frame
\* an apply_delay call shifted and returned.  Only start and end differ.
C14_OnlyTimesChange ==
    /\ SameOperations(schedule_df, base_schedule)
    /\ \A k \in Returned :
            /\ SameOperations(last.calls[k].shifted, base_schedule)
            /\ SameOperations(last.calls[k].out, base_schedule)

\* After an earlier mutation, a swap returned a schedule in which every
\* operation of both orders has moved from where it was loaded.
C14_Witness ==
    /\ ncmds = MaxCmds /\ last.fn = "apply_swap" /\ ~last.raised
    /\ last.before # base_schedule /\ schedule_df = last.result
    /\ \A i \in Rows :
            schedule_df[i].order_id \in {last.args.order_id, last.args.order_id_2}
                => schedule_df[i].start # base_schedule[i].start

\* C15: the log holds at most 50 entries; they are the last entries appended,
\* in the order they were appended; every command processed appended exactly
\* one, holding its raw text, its payload (as validated), the ok flag, the
\* message and the payload's extraction source, accepted or not.
C15_LogIsLast50 ==
    /\ Len(cmd_log) <= 50
    /\ Len(cmd_log) = IF Len(submitted) < 50 THEN Len(submitted) ELSE 50
    /\ \A i \in 1 .. Len(cmd_log) :
            cmd_log[i] = submitted[Len(submitted) - Len(cmd_log) + i]
    /\ \E n \in LogLens : Len(submitted) = n + ncmds
    /\ Processed =>
            LET e == cmd_log[Len(cmd_log)]
            IN  /\ e.raw = last.text /\ e.ok = last.ok /\ e.msg = last.msg
                /\ e.source = Extracted._source
                /\ [e.payload EXCEPT !._target_dt = last.payload._target_dt]
                        = last.payload
                /\ e.payload._target_dt.v = last.payload._target_dt.v

\* Onto a log of 49 entries a rejected and then an accepted command were
\* appended: the log holds 50, the oldest entry is gone.
C15_Witness ==
    /\ Processed /\ ncmds = MaxCmds
    /\ Len(submitted) = 51 /\ Len(cmd_log) = 50
    /\ cmd_log[1] = submitted[2]
    /\ ~cmd_log[49].ok /\ cmd_log[50].ok

\* Rows i and j are on one machine that the repack of call c swept.
SweptTogether(c, i, j) ==
    /\ i # j /\ c.shifted[i].machine = c.shifted[j].machine
    /\ c.shifted[i].machine \in {c.shifted[r].machine : r \in RowsOf(c.shifted, c.order_id)}

\* Row i comes before row j when the frame s is sorted by (start, end), ties
\* in index order.
Precedes(s, i, j) ==
    \/ s[i].start < s[j].start
    \/ s[i].start = s[j].start /\ s[i].end < s[j].end
    \/ s[i].start = s[j].start /\ s[i].end = s[j].end /\ i < j

\* C16: when x precedes y in the sort by (start, end) of a machine's block as
\* the repack found it, then in the frame the repack returned x starts no
\* later than y and ends no later than y starts.
C16_RepackKeepsOrder ==
    \A k \in Returned :
        LET c == last.calls[k]
        IN  \A i, j \in Rows :
                (SweptTogether(c, i, j) /\ Precedes(c.shifted, i, j)) =>
                    /\ c.out[i].start <= c.out[j].start
                    /\ c.out[i].end <= c.out[j].start

\* A shift put a later-indexed operation in front of an earlier-indexed one
\* on their machine, and the repack pushed the earlier-indexed one behind it.
C16_Witness ==
    /\ ~last.raised /\ Len(last.calls) > 0
    /\ LET c == last.calls[1]
       IN  \E i, j \in Rows :
                /\ SweptTogether(c, i, j) /\ Precedes(c.shifted, i, j)
                /\ j < i /\ Pushed(c, j)
                /\ c.out[j].start = c.out[i].end

\* Row i is visited right before row j in the sweep of their machine.
VisitedBefore(c, i, j) ==
    /\ SweptTogether(c, i, j) /\ Precedes(c.shifted, i, j)
    /\ ~\E h \in Rows : /\ SweptTogether(c, i, h) /\ h # j
                         /\ Precedes(c.shifted, i, h) /\ Precedes(c.shifted, h, j)

VisitedFirst(c, j) ==
    /\ c.shifted[j].machine \in {c.shifted[r].machine : r \in RowsOf(c.shifted, c.order_id)}
    /\ ~\E i \in Rows : SweptTogether(c, i, j) /\ Precedes(c.shifted, i, j)

\* C17: in the sweep of a machine the first operation visited stays; an
\* operation that starts no earlier than the end the one visited before it
\* has after its own update stays, start and end; one that starts earlier is
\* placed with its start at exactly that end and keeps its duration.
C17_SweepShiftsMinimally ==
    \A k \in Returned :
        LET c == last.calls[k]
        IN  \A j \in Rows :
                /\ VisitedFirst(c, j) => c.out[j] = c.shifted[j]
                /\ \A i \in Rows :
                        VisitedBefore(c, i, j) =>
                            IF c.shifted[j].start >= c.out[i].end
                            THEN c.out[j] = c.shifted[j]
                            ELSE /\ c.out[j].start = c.out[i].end
                                 /\ c.out[j].end = c.out[j].start + Dur(c.shifted, j)

\* Three operations on one machine: the second was pushed, and the third,
\* which started no earlier than the second's end before the sweep, was pushed
\* behind the second's new end.
C17_Witness ==
    /\ ~last.raised /\ Len(last.calls) > 0
    /\ LET c == last.calls[1]
       IN  \E h, i, j \in Rows :
                /\ VisitedBefore(c, h, i) /\ VisitedBefore(c, i, j)
                /\ Pushed(c, i) /\ Pushed(c, j)
                /\ c.shifted[j].start >= c.shifted[i].end
                /\ c.out[j].start = c.out[i].end

\* The machines that host an operation of one of the orders in the frame s.
MachinesOf(s, oids) == {s[i].machine : i \in {r \in Rows : s[r].order_id \in oids}}

\* The order(s) the last mutation was called for.
Edited ==
    IF last.fn = "apply_swap" THEN {last.args.order_id, last.args.order_id_2}
    ELSE {last.args.order_id}

\* C18: after apply_delay, apply_move or apply_swap returned, every operation
\* on a machine that hosted no operation of the edited order(s) in the frame
\* the mutation was given has the start and the end it had in that frame.
C18_OtherMachinesUntouched ==
    (last.fn \in {"apply_delay", "apply_move", "apply_swap"} /\ ~last.raised) =>
        \A i \in Rows :
            last.before[i].machine \notin MachinesOf(last.before, Edited) =>
                /\ last.result[i].start = last.before[i].start
                /\ last.result[i].end = last.before[i].end
                /\ schedule_df[i] = last.before[i]

\* A mutation pushed an operation of another order on a machine of the edited
\* order, while an operation on a machine without the edited order stayed
\* where an earlier mutation had put it.
C18_Witness ==
    /\ ncmds = MaxCmds /\ ~last.raised /\ Len(last.calls) > 0
    /\ \E i \in Rows : /\ last.before[i].order_id \notin Edited
                        /\ last.result[i] # last.before[i]
    /\ \E j \in Rows : /\ last.before[j].machine \notin MachinesOf(last.before, Edited)
                        /\ last.result[j] = last.before[j]
                        /\ last.before[j] # base_schedule[j]

\* C19 (as claimed): the entry the last command left in the log has ok = TRUE
\* exactly when a mutation was called, returned, and its result became the
\* schedule.
C19_LogOkIffTimelineReplaced ==
    Processed =>
        (cmd_log[Len(cmd_log)].ok <=>
            /\ last.fn \in {"apply_delay", "apply_move", "apply_swap"}
            /\ ~last.raised
            /\ schedule_df = last.result)

\* C20 (as claimed): when a and b host no machine in common in the frame
\* apply_swap was given and neither shift made two operations collide, the
\* returned frame has a's earliest start where b's was and b's where a's was.
C20_SwapExchangesStarts ==
    LET a == last.args.order_id
        b == last.args.order_id_2
    IN  (/\ last.fn = "apply_swap" /\ ~last.raised
         /\ MachinesOf(last.before, {a}) \cap MachinesOf(last.before, {b}) = {}
         /\ \A k \in 1 .. Len(last.calls) : NonOverlap(last.calls[k].shifted)) =>
            /\ MinStart(last.result, a) = MinStart(last.before, b)
            /\ MinStart(last.result, b) = MinStart(last.before, a)

\* In the frame s every order's operations run in sequence-index order: an
\* operation ends no later than the order's operations of a greater sequence
\* index start.
SequenceOrdered(s) ==
    \A i, j \in Rows :
        (s[i].order_id = s[j].order_id /\ s[i].sequence < s[j].sequence) =>
            s[i].end <= s[j].start

\* C21 (as claimed): the loaded schedule has every order's operations in
\* sequence-index order, and so has the schedule after any sequence of delay,
\* move and swap mutations.
C21_SequenceOrderKept ==
    SequenceOrdered(base_schedule) => SequenceOrdered(schedule_df)

====
